---- MODULE Spec2Model ----
(***************************************************************************)
(* A model of AWS-Cost-Analyzer: cost_analyzer.py (fetch, flatten, CSV,   *)
(* spreadsheet upload) and cost_by_service.py (aggregation by service).   *)
(*                                                                         *)
(* Four specifications share the module:                                   *)
(*   SpecAgg    load_costs / write_summary of cost_by_service.py           *)
(*   SpecFetch  fetch_costs and the flattening loop of process_account     *)
(*   SpecMain   one run of cost_analyzer.main, its subprocesses and its    *)
(*              uploads to the spreadsheet service                         *)
(*   SpecRuns   runs of cost_analyzer.main in a row, sharing the files     *)
(*              and the spreadsheets                                       *)
(***************************************************************************)
EXTENDS Integers, Sequences, FiniteSets, TLC

VARIABLES
    \* ---- cost_by_service.py: load_costs / write_summary
    aggIn,        \* the input CSV: File(data rows as DictReader yields them) or NoFile
    aggPos,       \* index of the next row the reader yields
    totals,       \* the dict `totals`, as its items in insertion order
    unit,         \* the variable `unit` of load_costs
    aggOut,       \* the summary CSV: File(rows), NoFile while not written
    aggPc,        \* position in cost_by_service.main
    \* ---- cost_analyzer.py: process_account / fetch_costs
    pArgs,        \* the arguments of process_account
    pAccount,     \* (account_id, account_name) from get_account_info
    request,      \* the dict `request` of fetch_costs
    results,      \* the list `results` of fetch_costs
    next_token,   \* the variable `next_token` of fetch_costs
    apiLog,       \* the calls of get_cost_and_usage: request token, response
    pRows,        \* the rows process_account returns
    pPc,          \* position in process_account
    \* ---- cost_analyzer.py: main, its subprocesses and the spreadsheet service
    env,          \* what a behaviour fixes: files given, outcomes possible, runs
    disk,         \* the files the programs write
    sheets,       \* the remote spreadsheets, in order of creation
    runNo,        \* the number of the current run of cost_analyzer.main
    runPc,        \* position in the run
    exitCode,     \* exit status of the run, once it has ended
    sheet_id,     \* the variable `sheet_id` of cost_analyzer.main
    sheet_tab,    \* the variable `sheet_tab` of cost_analyzer.main
    total_rows,   \* the variable `total_rows` of cost_analyzer.main
    processed,    \* the calls of process_account in this run, with outcome
    sub,          \* sheet_id and sheet_tab of the running subprocess
    up,           \* the frame of upload_csv_to_google_sheet in progress
    uploadLog     \* the completed uploads of all runs

aggVars == <<aggIn, aggPos, totals, unit, aggOut, aggPc>>

fetchVars == <<pArgs, pAccount, request, results, next_token, apiLog, pRows, pPc>>

runVars == <<env, disk, sheets, runNo, runPc, exitCode, sheet_id, sheet_tab,
             total_rows, processed, sub, up, uploadLog>>

vars == <<aggVars, fetchVars, runVars>>

\* a file on disk: absent, or present with its rows
NoFile == [exists |-> FALSE, rows |-> <<>>]
File(rows) == [exists |-> TRUE, rows |-> rows]

(***************************************************************************)
(* Bounds of the model.                                                    *)
(***************************************************************************)
\* longest input CSV (data rows) given to load_costs
MaxRows == 3
\* most entries of the accounts configuration
MaxAccounts == 2
\* most runs of cost_analyzer.main in a row
MaxRuns == 2
\* most pages the billing API spreads one answer over
MaxPages == 3
\* most time periods the billing API returns to one fetch_costs
MaxPeriods == 2
\* Significand width of the binary floating-point format.  A Python float
\* has 53 bits; the model keeps the format (binary, round to nearest, ties
\* to even) and narrows the significand so that rounding happens in range.
MantissaBits == 5

(***************************************************************************)
(* Generic helpers: dict.get, sequences.                                   *)
(***************************************************************************)
\* d.get(k, default) on a dict modelled as a record
Get(d, k, default) == IF k \in DOMAIN d THEN d[k] ELSE default

\* {}
EmptyDict == [k \in {} |-> ""]

\* del d[k]
Del(d, k) == [j \in DOMAIN d \ {k} |-> d[j]]

\* d[k] = v
Put(d, k, v) == (k :> v) @@ d

\* Python's None
None == "None"

\* `if x:` on a string or None
Truthy(x) == x \notin {None, ""}

\* the elements of a sequence
Range(s) == { s[i] : i \in 1..Len(s) }

\* the concatenation of a sequence of sequences
RECURSIVE Concat(_)
Concat(ss) == IF ss = <<>> THEN <<>> ELSE Head(ss) \o Concat(Tail(ss))

Abs(x) == IF x < 0 THEN -x ELSE x

RECURSIVE Pow2(_)
Pow2(n) == IF n = 0 THEN 1 ELSE 2 * Pow2(n - 1)

RECURSIVE SumSeq(_)
SumSeq(s) == IF s = <<>> THEN 0 ELSE Head(s) + SumSeq(Tail(s))

\* every reordering of the sequence s
Perms(s) == { [i \in 1..Len(s) |-> s[f[i]]] : f \in Permutations(1..Len(s)) }

(***************************************************************************)
(* Binary floating point.  Amounts are counted in half dollars, which a    *)
(* binary format holds exactly, so 1 stands for 0.50 and 21 for 10.50.     *)
(***************************************************************************)
\* the least e with a < 2^(MantissaBits + e)
RECURSIVE FloatExponent(_, _)
FloatExponent(a, e) ==
    IF a < Pow2(MantissaBits + e) THEN e ELSE FloatExponent(a, e + 1)

\* the float nearest to the real number x, ties to the even significand
RoundToFloat(x) ==
    LET a    == Abs(x)
        e    == FloatExponent(a, 0)
        ulp  == Pow2(e)
        q    == a \div ulp
        r    == a % ulp
        away == (2 * r > ulp) \/ (2 * r = ulp /\ q % 2 = 1)
        m    == IF away THEN (q + 1) * ulp ELSE q * ulp
    IN  IF x < 0 THEN -m ELSE m

\* float + float
FloatAdd(a, b) == RoundToFloat(a + b)

(***************************************************************************)
(* The texts of the CSV columns.                                           *)
(***************************************************************************)
\* amount texts that float() accepts, with the decimal they denote
DecimalTexts == {"0", "0.50", "2.00", "4.50", "10.50", "16.00"}

DecimalValue(text) ==
    CASE text = "0"     -> 0
      [] text = "0.50"  -> 1
      [] text = "2.00"  -> 4
      [] text = "4.50"  -> 9
      [] text = "10.50" -> 21
      [] text = "16.00" -> 32

\* amount cells: the decimals and a text float() rejects
AmountTexts == (DecimalTexts \ {"0"}) \cup {"abc"}

\* service cells; str.strip() removes the blanks around " S3 "
ServiceTexts == {"EC2", " S3 "}

Strip(text) ==
    CASE text = " S3 "   -> "S3"
      [] text = " sid1 " -> "sid1"
      [] text = " "      -> ""
      [] OTHER           -> text

\* x or y, on strings
StrOr(x, y) == IF x = "" THEN y ELSE x

\* float(text): the value, or ValueError raised
ParseFloat(text) ==
    IF text \in DecimalTexts
    THEN [raised |-> FALSE, value |-> RoundToFloat(DecimalValue(text))]
    ELSE [raised |-> TRUE, value |-> 0]

(***************************************************************************)
(* cost_by_service.load_costs                                              *)
(***************************************************************************)
\* index of key in the items of a dict, 0 when absent
KeyIndex(items, key) ==
    IF \E i \in 1..Len(items) : items[i][1] = key
    THEN CHOOSE i \in 1..Len(items) : items[i][1] = key
    ELSE 0

\* d.get(key, default) on a dict held as items
ItemsGet(items, key, default) ==
    IF KeyIndex(items, key) = 0 THEN default ELSE items[KeyIndex(items, key)][2]

\* d[key] = value: a new key is appended, an old key keeps its place
ItemsPut(items, key, value) ==
    IF KeyIndex(items, key) = 0
    THEN Append(items, <<key, value>>)
    ELSE [items EXCEPT ![KeyIndex(items, key)] = <<key, value>>]

\* the dict as a mapping, insertion order forgotten (dict equality)
ItemsMap(items) ==
    [k \in {items[i][1] : i \in 1..Len(items)} |-> ItemsGet(items, k, 0)]

\* amount_str of one row
AmountStr(row) == Strip(StrOr(Get(row, "amount", ""), "0"))

\* float(amount_str) with the ValueError left to propagate
RowAmountUncaught(row) == ParseFloat(AmountStr(row))

\* try: amount = float(amount_str) / except ValueError: amount = 0.0
RowAmount(row) ==
    LET parsed == ParseFloat(AmountStr(row))
    IN  [raised |-> FALSE, value |-> IF parsed.raised THEN 0 ELSE parsed.value]

\* the aggregation key of one row
RowService(row) == StrOr(Strip(StrOr(Get(row, "service", ""), "")), "Uncategorized")

\* totals[service] = amount, the accumulation forgotten
AccumulateOverwrite(tot, service, amount) == ItemsPut(tot, service, amount)

\* totals[service] = totals.get(service, 0.0) + amount
Accumulate(tot, service, amount) ==
    ItemsPut(tot, service, FloatAdd(ItemsGet(tot, service, 0), amount))

\* one iteration of the reader loop: the new totals and unit, and whether an
\* exception left the loop
LoadRow(state, row) ==
    LET row_unit == Strip(StrOr(Get(row, "unit", ""), ""))
        amount   == RowAmount(row)
    IN  IF amount.raised
        THEN [totals |-> state.totals, unit |-> state.unit, raised |-> TRUE]
        ELSE [totals |-> Accumulate(state.totals, RowService(row), amount.value),
              unit   |-> IF row_unit # "" THEN row_unit ELSE state.unit,
              raised |-> FALSE]

\* load_costs on the data rows of an existing file
RECURSIVE LoadFrom(_, _)
LoadFrom(state, rows) ==
    IF rows = <<>> \/ state.raised THEN state
    ELSE LoadFrom(LoadRow(state, Head(rows)), Tail(rows))

LoadCosts(rows) == LoadFrom([totals |-> <<>>, unit |-> "USD", raised |-> FALSE], rows)

(***************************************************************************)
(* cost_by_service.write_summary                                           *)
(***************************************************************************)
\* insert item into a list sorted by total descending, after its equals
\* the same with the comparison turned round: ascending
RECURSIVE InsertAsc(_, _)
InsertAsc(sorted, item) ==
    IF sorted = <<>> THEN <<item>>
    ELSE IF item[2] < Head(sorted)[2] THEN <<item>> \o sorted
    ELSE <<Head(sorted)>> \o InsertAsc(Tail(sorted), item)

RECURSIVE InsertDesc(_, _)

InsertDesc(sorted, item) ==
    IF sorted = <<>> THEN <<item>>
    ELSE IF item[2] > Head(sorted)[2] THEN <<item>> \o sorted
    ELSE <<Head(sorted)>> \o InsertDesc(Tail(sorted), item)

\* sorted(totals.items(), key=lambda item: item[1], reverse=True): stable
RECURSIVE SortedRows(_)
SortedRows(items) ==
    IF items = <<>> THEN <<>>
    ELSE InsertDesc(SortedRows(SubSeq(items, 1, Len(items) - 1)), items[Len(items)])

Digits == <<"0", "1", "2", "3", "4", "5", "6", "7", "8", "9">>

\* str(n) of a count
RECURSIVE IntText(_)
IntText(n) == IF n < 10 THEN Digits[n + 1] ELSE IntText(n \div 10) \o Digits[(n % 10) + 1]

\* the integer part of f"{amount:,.2f}": groups of three digits, commas between
RECURSIVE Grouped(_)
Grouped(n) ==
    IF n < 1000 THEN IntText(n)
    ELSE Grouped(n \div 1000) \o "," \o Digits[(n % 1000) \div 100 + 1]
         \o Digits[(n % 100) \div 10 + 1] \o Digits[(n % 10) + 1]

\* f"{currency_prefix}{amount:,.2f}", the amount counted in half dollars
FormatAmount(currency_prefix, amount) ==
    currency_prefix \o Grouped(amount \div 2) \o (IF amount % 2 = 1 THEN ".50" ELSE ".00")

SummaryHeader == <<"service", "total_amount", "unit">>

\* the rows write_summary writes
WriteSummary(tot, u) ==
    LET sorted_rows     == SortedRows(tot)
        currency_prefix == IF u = "USD" THEN "$" ELSE ""
    IN  <<SummaryHeader>> \o
        [i \in 1..Len(sorted_rows) |->
            <<sorted_rows[i][1], FormatAmount(currency_prefix, sorted_rows[i][2]), u>>]

(***************************************************************************)
(* SpecAgg: cost_by_service.main up to the written summary.                *)
(***************************************************************************)
\* the rows an input CSV may hold
AggRowDomain ==
    { [service |-> s, amount |-> a, unit |-> "USD"] : s \in ServiceTexts, a \in AmountTexts }
    \cup { [service |-> "", amount |-> "2.00", unit |-> "EUR"],
           [service |-> " S3 ", amount |-> "", unit |-> ""],
           [amount |-> "0.50", unit |-> "USD"] }

SeqsUpTo(S, n) == UNION { [1..k -> S] : k \in 0..n }

AggIdle ==
    /\ aggIn = NoFile
    /\ aggPos = 1
    /\ totals = <<>>
    /\ unit = "USD"
    /\ aggOut = NoFile
    /\ aggPc = "idle"

AggStart ==
    /\ aggIn \in {File(rows) : rows \in SeqsUpTo(AggRowDomain, MaxRows)} \cup {NoFile}
    /\ aggPos = 1
    /\ totals = <<>>
    /\ unit = "USD"
    /\ aggOut = NoFile
    /\ aggPc = "start"

\* load_costs: the input file is missing, sys.exit(1)
AggInputMissing ==
    /\ UNCHANGED <<fetchVars, runVars>>
    /\ aggPc = "start"
    /\ ~aggIn.exists
    /\ aggPc' = "exit1"
    /\ UNCHANGED <<aggIn, aggPos, totals, unit, aggOut>>

\* load_costs: the file is opened
AggOpen ==
    /\ UNCHANGED <<fetchVars, runVars>>
    /\ aggPc = "start"
    /\ aggIn.exists
    /\ aggPc' = "load"
    /\ UNCHANGED <<aggIn, aggPos, totals, unit, aggOut>>

\* load_costs: one iteration of `for row in reader`; an exception that
\* leaves the loop ends the program with a traceback
AggLoadRow ==
    /\ UNCHANGED <<fetchVars, runVars>>
    /\ aggPc = "load"
    /\ aggPos <= Len(aggIn.rows)
    /\ LET next == LoadRow([totals |-> totals, unit |-> unit, raised |-> FALSE],
                           aggIn.rows[aggPos])
       IN  /\ totals' = next.totals
           /\ unit' = next.unit
           /\ aggPc' = IF next.raised THEN "traceback" ELSE "load"
           /\ aggPos' = IF next.raised THEN aggPos ELSE aggPos + 1
    /\ UNCHANGED <<aggIn, aggOut>>

\* load_costs returns; main returns early when totals is empty
AggLoaded ==
    /\ UNCHANGED <<fetchVars, runVars>>
    /\ aggPc = "load"
    /\ aggPos > Len(aggIn.rows)
    /\ aggPc' = IF totals = <<>> THEN "nodata" ELSE "write"
    /\ UNCHANGED <<aggIn, aggPos, totals, unit, aggOut>>

\* write_summary
AggWriteSummary ==
    /\ UNCHANGED <<fetchVars, runVars>>
    /\ aggPc = "write"
    /\ aggOut' = File(WriteSummary(totals, unit))
    /\ aggPc' = "written"
    /\ UNCHANGED <<aggIn, aggPos, totals, unit>>

AggNext ==
    \/ AggInputMissing
    \/ AggOpen
    \/ AggLoadRow
    \/ AggLoaded
    \/ AggWriteSummary

(***************************************************************************)
(* The billing API (Cost Explorer get_cost_and_usage), as its contract:    *)
(* a request whose Start is not before its End is refused; an answer holds *)
(* time periods inside the requested range, carries groups when GroupBy    *)
(* is given and a total when it is not, and is spread over pages linked by *)
(* NextPageToken.                                                          *)
(***************************************************************************)
\* the dates, as day numbers (ISO dates order the same way)
Dates == 0..2

\* the tokens the API hands out, one per page
TokenOf == <<"tok1", "tok2", "tok3", "tok4", "tok5">>

MetricFull   == [Amount |-> "10.50", Unit |-> "USD"]
MetricNoUnit == [Amount |-> "4.50"]
MetricNoAmount == [Unit |-> "EUR"]

\* Groups of one period under GroupBy SERVICE
GroupsTwo ==
    << [Keys |-> <<"EC2">>, Metrics |-> [UnblendedCost |-> MetricFull]],
       [Keys |-> <<"S3", "x">>, Metrics |-> [UnblendedCost |-> MetricNoUnit]] >>

GroupsNoKey == << [Keys |-> <<>>, Metrics |-> [UnblendedCost |-> MetricNoAmount]] >>

GroupLists == { <<>>, GroupsTwo, GroupsNoKey }

\* Total of one period without GroupBy
TotalDicts ==
    { [UnblendedCost |-> MetricFull], [UnblendedCost |-> MetricNoAmount], EmptyDict }

\* the periods an answer to req may hold
ApiPeriods(req) ==
    LET spans == { [Start |-> a, End |-> b] :
                     a \in req.TimePeriod.Start .. req.TimePeriod.End - 1,
                     b \in req.TimePeriod.Start + 1 .. req.TimePeriod.End }
        inside == { tp \in spans : tp.Start < tp.End }
    IN  IF "GroupBy" \in DOMAIN req
        THEN { [TimePeriod |-> tp, Groups |-> g, Total |-> EmptyDict] :
                 tp \in inside, g \in GroupLists }
        ELSE { [TimePeriod |-> tp, Groups |-> <<>>, Total |-> t] :
                 tp \in inside, t \in TotalDicts }

\* the API refuses the request (ClientError)
ApiRefuses(req) == ~(req.TimePeriod.Start < req.TimePeriod.End)

\* the pages the API may answer req with, after `calls` earlier pages that
\* held `held` periods in all: the last page carries no NextPageToken
ApiResponses(req, calls, held) ==
    LET lists == UNION { [1..n -> ApiPeriods(req)] : n \in 0..(MaxPeriods - held) }
        last  == { [ResultsByTime |-> ps] : ps \in lists } \cup { EmptyDict }
        more  == { [ResultsByTime |-> ps, NextPageToken |-> TokenOf[calls + 1]] :
                     ps \in lists }
    IN  IF calls + 1 < MaxPages THEN last \cup more ELSE last

(***************************************************************************)
(* cost_analyzer.get_account_info                                          *)
(***************************************************************************)
\* what sts.get_caller_identity and iam.list_account_aliases may do
StsOutcomes ==
    { [raised |-> TRUE, response |-> EmptyDict],
      [raised |-> FALSE, response |-> [Account |-> "111122223333"]] }

IamOutcomes ==
    { [raised |-> TRUE, response |-> EmptyDict],
      [raised |-> FALSE, response |-> [AccountAliases |-> <<"prod", "alt">>]],
      [raised |-> FALSE, response |-> [AccountAliases |-> <<>>]] }

\* get_account_info with the except clauses missing
GetAccountInfoUncaught(sts, iam) ==
    [raised       |-> sts.raised \/ iam.raised,
     account_id   |-> Get(sts.response, "Account", ""),
     account_name |-> LET aliases == Get(iam.response, "AccountAliases", <<>>)
                      IN  IF aliases # <<>> THEN aliases[1] ELSE ""]

\* get_account_info: both lookups are tried, a failure leaves ""
GetAccountInfo(sts, iam) ==
    [raised       |-> FALSE,
     account_id   |-> IF sts.raised THEN "" ELSE Get(sts.response, "Account", ""),
     account_name |-> IF iam.raised THEN ""
                      ELSE LET aliases == Get(iam.response, "AccountAliases", <<>>)
                           IN  IF aliases # <<>> THEN aliases[1] ELSE ""]

(***************************************************************************)
(* cost_analyzer.fetch_costs                                               *)
(***************************************************************************)
\* the request with the end date taken as inclusive
InitialRequestInclusiveEnd(start_date, end_date, granularity, group_by) ==
    LET base == [TimePeriod  |-> [Start |-> start_date, End |-> end_date + 1],
                 Granularity |-> granularity,
                 Metrics     |-> <<"UnblendedCost">>]
    IN  IF group_by = "SERVICE"
        THEN Put(base, "GroupBy", <<[Type |-> "DIMENSION", Key |-> "SERVICE"]>>)
        ELSE base

\* the request before the loop
InitialRequest(start_date, end_date, granularity, group_by) ==
    LET base == [TimePeriod  |-> [Start |-> start_date, End |-> end_date],
                 Granularity |-> granularity,
                 Metrics     |-> <<"UnblendedCost">>]
    IN  IF group_by = "SERVICE"
        THEN Put(base, "GroupBy", <<[Type |-> "DIMENSION", Key |-> "SERVICE"]>>)
        ELSE base

\* the top of the loop body: the page token is set, or removed
PrepareRequest(req, token) ==
    IF Truthy(token) THEN Put(req, "NextPageToken", token)
    ELSE IF "NextPageToken" \in DOMAIN req THEN Del(req, "NextPageToken")
    ELSE req

\* the rest of the loop body with results assigned, not extended
AbsorbResponseOverwrite(res, response) ==
    [results    |-> Get(response, "ResultsByTime", <<>>),
     next_token |-> Get(response, "NextPageToken", None)]

\* the rest of the loop body: the response is absorbed
AbsorbResponse(res, response) ==
    [results    |-> res \o Get(response, "ResultsByTime", <<>>),
     next_token |-> Get(response, "NextPageToken", None)]

\* the token a request carries, None when it carries none
RequestToken(req) == Get(req, "NextPageToken", None)

(***************************************************************************)
(* cost_analyzer.process_account: the flattening loop                      *)
(***************************************************************************)
Row(account, period, granularity, service_name, metric) ==
    [account_id   |-> account.account_id,
     account_name |-> account.account_name,
     period_start |-> Get(Get(period, "TimePeriod", EmptyDict), "Start", ""),
     period_end   |-> Get(Get(period, "TimePeriod", EmptyDict), "End", ""),
     granularity  |-> granularity,
     service      |-> service_name,
     amount       |-> Get(metric, "Amount", "0"),
     unit         |-> Get(metric, "Unit", "USD")]

\* the row of one group of a period
GroupRow(account, period, granularity, group) ==
    LET keys == Get(group, "Keys", <<>>)
    IN  Row(account, period, granularity,
            IF keys # <<>> THEN keys[1] ELSE "",
            Get(Get(group, "Metrics", EmptyDict), "UnblendedCost", EmptyDict))

\* the rows of one period with only its first group kept
PeriodRowsFirstGroup(account, period, granularity, group_by) ==
    IF group_by = "SERVICE"
    THEN LET groups == Get(period, "Groups", <<>>)
         IN  IF groups = <<>> THEN <<>>
             ELSE <<GroupRow(account, period, granularity, groups[1])>>
    ELSE << Row(account, period, granularity, "",
                Get(Get(period, "Total", EmptyDict), "UnblendedCost", EmptyDict)) >>

\* the rows of one period
PeriodRows(account, period, granularity, group_by) ==
    IF group_by = "SERVICE"
    THEN LET groups == Get(period, "Groups", <<>>)
         IN  [j \in 1..Len(groups) |-> GroupRow(account, period, granularity, groups[j])]
    ELSE << Row(account, period, granularity, "",
                Get(Get(period, "Total", EmptyDict), "UnblendedCost", EmptyDict)) >>

\* `for period in results`
RECURSIVE Flatten(_, _, _, _)
Flatten(account, res, granularity, group_by) ==
    IF res = <<>> THEN <<>>
    ELSE PeriodRows(account, Head(res), granularity, group_by)
         \o Flatten(account, Tail(res), granularity, group_by)

(***************************************************************************)
(* SpecFetch: one call of process_account.                                 *)
(***************************************************************************)
\* entries of the accounts configuration
AccountConfigs ==
    { [aws_access_key_id |-> "AKIA", aws_secret_access_key |-> "secret"],
      [aws_access_key_id |-> "AKIA"] }

NoAccount == [raised |-> FALSE, account_id |-> "", account_name |-> ""]

FetchIdle ==
    /\ pArgs = EmptyDict
    /\ pAccount = NoAccount
    /\ request = EmptyDict
    /\ results = <<>>
    /\ next_token = None
    /\ apiLog = <<>>
    /\ pRows = <<>>
    /\ pPc = "idle"

FetchStart ==
    /\ pArgs \in [account_config : AccountConfigs,
                  start_date : Dates, end_date : Dates,
                  granularity : {"DAILY", "MONTHLY"},
                  group_by : {"SERVICE", "NONE"}]
    /\ pAccount = NoAccount
    /\ request = EmptyDict
    /\ results = <<>>
    /\ next_token = None
    /\ apiLog = <<>>
    /\ pRows = <<>>
    /\ pPc = "start"

\* credentials are missing: a warning, and no rows
PSkipAccount ==
    /\ UNCHANGED <<aggVars, runVars>>
    /\ pPc = "start"
    /\ \/ ~Truthy(Get(pArgs.account_config, "aws_access_key_id", None))
       \/ ~Truthy(Get(pArgs.account_config, "aws_secret_access_key", None))
    /\ pRows' = <<>>
    /\ pPc' = "returned"
    /\ UNCHANGED <<pArgs, pAccount, request, results, next_token, apiLog>>

\* the session and get_account_info
PGetAccountInfo ==
    /\ UNCHANGED <<aggVars, runVars>>
    /\ pPc = "start"
    /\ Truthy(Get(pArgs.account_config, "aws_access_key_id", None))
    /\ Truthy(Get(pArgs.account_config, "aws_secret_access_key", None))
    /\ \E sts \in StsOutcomes, iam \in IamOutcomes :
        /\ pAccount' = GetAccountInfo(sts, iam)
        /\ pPc' = IF GetAccountInfo(sts, iam).raised THEN "raised" ELSE "fetch"
    /\ request' = InitialRequest(pArgs.start_date, pArgs.end_date,
                                 pArgs.granularity, pArgs.group_by)
    /\ UNCHANGED <<pArgs, results, next_token, apiLog, pRows>>

\* fetch_costs: one iteration of `while True` that the API answers
PFetchPage ==
    /\ UNCHANGED <<aggVars, runVars>>
    /\ pPc = "fetch"
    /\ LET req == PrepareRequest(request, next_token)
       IN  /\ ~ApiRefuses(req)
           /\ request' = req
           /\ \E response \in ApiResponses(req, Len(apiLog), Len(results)) :
               LET got == AbsorbResponse(results, response)
               IN  /\ results' = got.results
                   /\ next_token' = got.next_token
                   /\ apiLog' = Append(apiLog, [token    |-> RequestToken(req),
                                                response |-> response])
                   /\ pPc' = IF ~Truthy(got.next_token) THEN "flatten" ELSE "fetch"
    /\ UNCHANGED <<pArgs, pAccount, pRows>>

\* fetch_costs: the API refuses the request and the ClientError propagates
PFetchRefused ==
    /\ UNCHANGED <<aggVars, runVars>>
    /\ pPc = "fetch"
    /\ LET req == PrepareRequest(request, next_token)
       IN  /\ ApiRefuses(req)
           /\ request' = req
    /\ pPc' = "raised"
    /\ UNCHANGED <<pArgs, pAccount, results, next_token, apiLog, pRows>>

\* the flattening loop and the return
PFlatten ==
    /\ UNCHANGED <<aggVars, runVars>>
    /\ pPc = "flatten"
    /\ pRows' = Flatten(pAccount, results, pArgs.granularity, pArgs.group_by)
    /\ pPc' = "returned"
    /\ UNCHANGED <<pArgs, pAccount, request, results, next_token, apiLog>>

FetchNext ==
    \/ PSkipAccount
    \/ PGetAccountInfo
    \/ PFetchPage
    \/ PFetchRefused
    \/ PFlatten

(***************************************************************************)
(* CSV files: csv.writer writes text cells, csv.reader and DictReader read *)
(* them back.                                                              *)
(***************************************************************************)
\* isoformat of a date
DateText == <<"2024-01-01", "2024-01-02", "2024-01-03", "2024-01-04">>

\* datetime.isoformat() of the moment of the n-th run
StampText(n) == "2024-01-04T00:00:0" \o IntText(n) \o "+00:00"

CsvHeader == <<"account_id", "account_name", "period_start", "period_end",
               "granularity", "service", "amount", "unit">>

LogsHeader == <<"run_started_at_utc", "run_finished_at_utc", "data_start_date",
                "data_end_date", "granularity", "group_by", "rows_written">>

\* writer.writerow(row) for a row of process_account
RowCells(row) ==
    << row.account_id, row.account_name, DateText[row.period_start + 1],
       DateText[row.period_end + 1], row.granularity, row.service, row.amount,
       row.unit >>

\* csv.DictReader: the data rows as dicts keyed by the header cells
DictRows(lines) ==
    [i \in 1..(Len(lines) - 1) |->
        [k \in { lines[1][c] : c \in 1..Len(lines[1]) } |->
            lines[i + 1][CHOOSE c \in 1..Len(lines[1]) : lines[1][c] = k]]]

(***************************************************************************)
(* cost_analyzer.load_aws_accounts, load_sheet_config, store_sheet_config  *)
(***************************************************************************)
\* a JSON file: absent, or present with the dict it holds
NoJson == [exists |-> FALSE, content |-> EmptyDict]
Json(d) == [exists |-> TRUE, content |-> d]

\* load_aws_accounts: sys.exit(1) when the file is missing
LoadAwsAccounts(file) ==
    IF ~file.exists THEN [exit |-> TRUE, accounts |-> <<>>]
    ELSE [exit |-> FALSE, accounts |-> Get(file.content, "accounts", <<>>)]

\* `if not accounts:` left out of main
NoAccountsIgnored(accounts) == FALSE

\* `if not accounts:` in main
NoAccounts(accounts) == accounts = <<>>

\* load_sheet_config
LoadSheetConfig(explicit_sheet_id, explicit_sheet_tab, file) ==
    LET id0  == StrOr(explicit_sheet_id, "")
        tab0 == StrOr(explicit_sheet_tab, "")
        id1  == IF file.exists /\ id0 = ""
                THEN Strip(Get(file.content, "sheet_id", "")) ELSE id0
        tab1 == IF file.exists /\ tab0 = ""
                THEN Strip(Get(file.content, "sheet_tab", "")) ELSE tab0
    IN  [sheet_id |-> id1, sheet_tab |-> StrOr(tab1, "Sheet1")]

\* store_sheet_config: the file as rewritten
StoreSheetConfig(id, tab) ==
    LET withId == IF Truthy(id) THEN Put(EmptyDict, "sheet_id", id) ELSE EmptyDict
    IN  Json(IF Truthy(tab) THEN Put(withId, "sheet_tab", tab) ELSE withId)

(***************************************************************************)
(* The spreadsheet service: spreadsheets of tabs, each tab a grid of rows. *)
(***************************************************************************)
SheetIdOf == <<"sid1", "sid2", "sid3", "sid4", "sid5", "sid6", "sid7", "sid8", "sid9">>

SheetIndex(id) == CHOOSE i \in 1..Len(SheetIdOf) : SheetIdOf[i] = id

\* spreadsheets().create: a new spreadsheet has the one tab "Sheet1"
NewSpreadsheet(title) ==
    [title |-> title, tabs |-> <<[title |-> "Sheet1", values |-> <<>>]>>, writers |-> {}]

TabTitles(book) == { book.tabs[i].title : i \in 1..Len(book.tabs) }

TabIndex(book, title) == CHOOSE i \in 1..Len(book.tabs) : book.tabs[i].title = title

\* batchUpdate addSheet
AddSheet(book, title) ==
    [book EXCEPT !.tabs = Append(@, [title |-> title, values |-> <<>>])]

\* values().clear(range=title): every cell of the tab
Clear(book, title) ==
    [book EXCEPT !.tabs[TabIndex(book, title)].values = <<>>]

\* the cells of one grid row after new cells are written from column A
OverlayRow(old, new) ==
    new \o (IF Len(old) > Len(new) THEN SubSeq(old, Len(new) + 1, Len(old)) ELSE <<>>)

\* a number in the default number format: no trailing zeros
General(amount) == IntText(amount \div 2) \o (IF amount % 2 = 1 THEN ".5" ELSE "")

\* the amounts the grid is asked to read, in half dollars
GridAmounts == 0..Pow2(MantissaBits + 3)

\* the texts of amounts with two decimals, each with its amount
PlainAmounts ==
    [t \in { FormatAmount("", a) : a \in GridAmounts } |->
        CHOOSE a \in GridAmounts : t = FormatAmount("", a)]

\* the texts of amounts in dollars
CurrencyTexts == { FormatAmount("$", a) : a \in GridAmounts }

\* the texts of counts
CountTexts == { IntText(n) : n \in GridAmounts }

\* the cell a text becomes under valueInputOption="USER_ENTERED": the text is
\* read as if typed into the grid, so a numeral becomes a number, a currency
\* amount a number in currency format, an ISO date a date, and only other
\* text stays text; shown is what the cell then displays
UserEntered(text) ==
    IF text \in DecimalTexts
    THEN [kind |-> "number", shown |-> General(DecimalValue(text))]
    ELSE IF text \in DOMAIN PlainAmounts
    THEN [kind |-> "number", shown |-> General(PlainAmounts[text])]
    ELSE IF text \in CurrencyTexts
    THEN [kind |-> "currency", shown |-> text]
    ELSE IF text \in CountTexts \cup {"111122223333"}
    THEN [kind |-> "number", shown |-> text]
    ELSE IF text \in Range(DateText)
    THEN [kind |-> "date", shown |-> text]
    ELSE [kind |-> "text", shown |-> text]

\* values().update(range=title!A1, valueInputOption="USER_ENTERED"): the rows
\* are entered over the grid from A1, cells outside them keep what they held
Update(book, title, rows) ==
    LET old   == book.tabs[TabIndex(book, title)].values
        cells == [i \in 1..Len(rows) |->
                    [j \in 1..Len(rows[i]) |-> UserEntered(rows[i][j])]]
        new == [i \in 1..(IF Len(old) > Len(rows) THEN Len(old) ELSE Len(rows)) |->
                  IF i > Len(rows) THEN old[i]
                  ELSE IF i > Len(old) THEN cells[i]
                  ELSE OverlayRow(old[i], cells[i])]
    IN  [book EXCEPT !.tabs[TabIndex(book, title)].values = new]

\* permissions().create
Share(book, email) == [book EXCEPT !.writers = @ \cup {email}]

\* the API answers of the runs
ScriptData ==
    [raises |-> FALSE,
     pages  |-> << [ResultsByTime |->
                      << [TimePeriod |-> [Start |-> 0, End |-> 1],
                          Groups |-> GroupsTwo, Total |-> EmptyDict] >>,
                    NextPageToken |-> "tok1"],
                   [ResultsByTime |->
                      << [TimePeriod |-> [Start |-> 1, End |-> 2],
                          Groups |-> GroupsNoKey, Total |-> EmptyDict] >>] >>]

ScriptEmpty == [raises |-> FALSE, pages |-> <<EmptyDict>>]

ScriptRefused == [raises |-> TRUE, pages |-> <<>>]

(***************************************************************************)
(* cost_analyzer.fetch_costs and process_account as one call, against an   *)
(* API that answers with the pages of a script, or refuses                 *)
(***************************************************************************)
\* the loop of fetch_costs over the pages the API will answer with
RECURSIVE FetchLoop(_, _, _, _)
FetchLoop(req, res, token, pages) ==
    LET got == AbsorbResponse(res, Head(pages))
    IN  IF ~Truthy(got.next_token) THEN got.results
        ELSE FetchLoop(PrepareRequest(req, got.next_token), got.results,
                       got.next_token, Tail(pages))

\* process_account: rows, or the exception that leaves it
ProcessAccount(account_config, args, sts, iam, api) ==
    IF \/ ~Truthy(Get(account_config, "aws_access_key_id", None))
       \/ ~Truthy(Get(account_config, "aws_secret_access_key", None))
    THEN [skipped |-> TRUE, raised |-> FALSE, fetched |-> FALSE, rows |-> <<>>]
    ELSE LET account == GetAccountInfo(sts, iam)
             req     == InitialRequest(args.start_date, args.end_date,
                                       args.granularity, args.group_by)
         IN  IF account.raised
             THEN [skipped |-> FALSE, raised |-> TRUE, fetched |-> FALSE, rows |-> <<>>]
             ELSE IF api.raises \/ ApiRefuses(req)
             THEN [skipped |-> FALSE, raised |-> TRUE, fetched |-> TRUE, rows |-> <<>>]
             ELSE [skipped |-> FALSE, raised |-> FALSE, fetched |-> TRUE,
                   rows |-> Flatten(account,
                                    FetchLoop(PrepareRequest(req, None), <<>>, None,
                                              api.pages),
                                    args.granularity, args.group_by)]

(***************************************************************************)
(* cost_analyzer.upload_csv_to_google_sheet and ensure_sheet_tab           *)
(***************************************************************************)
\* the frame of one call: its arguments, its position and its remote calls
Frame(csv_path, id, title, tab, share_with) ==
    [csv_path |-> csv_path, given_id |-> id, sheet_id |-> id, sheet_title |-> title,
     sheet_tab |-> tab, share_with |-> share_with, rows |-> <<>>,
     step |-> "create", calls |-> <<>>]

NoUpload == [Frame("", "", "", "", None) EXCEPT !.step = "idle"]

Uploading == runPc \in {"upload_raw", "upload_svc", "upload_acct", "upload_logs"}

\* ensure_sheet_tab: the spreadsheet after it, the tab name, the remote calls
EnsureSheetTab(book, tab) ==
    LET name == StrOr(tab, "Sheet1")
    IN  IF name \in TabTitles(book)
        THEN [book |-> book, tab |-> name, calls |-> <<"get">>]
        ELSE [book |-> AddSheet(book, name), tab |-> name,
              calls |-> <<"get", "addSheet">>]

\* `if not sheet_id:` spreadsheets().create
UpCreate ==
    /\ UNCHANGED <<aggVars, fetchVars>>
    /\ Uploading
    /\ up.step = "create"
    /\ IF ~Truthy(up.sheet_id)
       THEN /\ sheets' = Append(sheets, NewSpreadsheet(up.sheet_title))
            /\ up' = [up EXCEPT !.sheet_id = SheetIdOf[Len(sheets) + 1],
                                !.calls = Append(@, "create"),
                                !.step = "ensure"]
       ELSE /\ sheets' = sheets
            /\ up' = [up EXCEPT !.step = "ensure"]
    /\ UNCHANGED <<env, disk, runNo, runPc, exitCode, sheet_id, sheet_tab,
                   total_rows, processed, sub, uploadLog>>

\* sheet_tab = ensure_sheet_tab(...)
UpEnsureTab ==
    /\ UNCHANGED <<aggVars, fetchVars>>
    /\ Uploading
    /\ up.step = "ensure"
    /\ LET i   == SheetIndex(up.sheet_id)
           got == EnsureSheetTab(sheets[i], up.sheet_tab)
       IN  /\ sheets' = [sheets EXCEPT ![i] = got.book]
           /\ up' = [up EXCEPT !.sheet_tab = got.tab,
                               !.calls = @ \o got.calls,
                               !.step = "clear"]
    /\ UNCHANGED <<env, disk, runNo, runPc, exitCode, sheet_id, sheet_tab,
                   total_rows, processed, sub, uploadLog>>

\* rows = list(csv.reader(csvfile)); values().clear
UpClear ==
    /\ UNCHANGED <<aggVars, fetchVars>>
    /\ Uploading
    /\ up.step = "clear"
    /\ sheets' = [sheets EXCEPT ![SheetIndex(up.sheet_id)] = Clear(@, up.sheet_tab)]
    /\ up' = [up EXCEPT !.rows = disk[up.csv_path].rows,
                        !.calls = Append(@, "clear"),
                        !.step = "update"]
    /\ UNCHANGED <<env, disk, runNo, runPc, exitCode, sheet_id, sheet_tab,
                   total_rows, processed, sub, uploadLog>>

\* values().update at A1
UpUpdate ==
    /\ UNCHANGED <<aggVars, fetchVars>>
    /\ Uploading
    /\ up.step = "update"
    /\ sheets' = [sheets EXCEPT ![SheetIndex(up.sheet_id)] =
                                    Update(@, up.sheet_tab, up.rows)]
    /\ up' = [up EXCEPT !.calls = Append(@, "update"), !.step = "share"]
    /\ UNCHANGED <<env, disk, runNo, runPc, exitCode, sheet_id, sheet_tab,
                   total_rows, processed, sub, uploadLog>>

\* `if share_with:` permissions().create
UpShare ==
    /\ UNCHANGED <<aggVars, fetchVars>>
    /\ Uploading
    /\ up.step = "share"
    /\ IF Truthy(up.share_with)
       THEN /\ sheets' = [sheets EXCEPT ![SheetIndex(up.sheet_id)] =
                                           Share(@, up.share_with)]
            /\ up' = [up EXCEPT !.calls = Append(@, "permissions"), !.step = "return"]
       ELSE /\ sheets' = sheets
            /\ up' = [up EXCEPT !.step = "return"]
    /\ UNCHANGED <<env, disk, runNo, runPc, exitCode, sheet_id, sheet_tab,
                   total_rows, processed, sub, uploadLog>>

\* the record of a completed upload
Uploaded ==
    [run |-> runNo, tab |-> up.sheet_tab, sheet_id |-> up.sheet_id,
     given_id |-> up.given_id, calls |-> up.calls]

(***************************************************************************)
(* cost_analyzer.main                                                      *)
(***************************************************************************)
Accounts == Get(env.accounts_file.content, "accounts", <<>>)

\* from parse_args to the header of the output CSV
MainStart ==
    /\ UNCHANGED <<aggVars, fetchVars>>
    /\ runPc = "start"
    /\ LET cfg    == LoadSheetConfig(env.args.sheet_id, env.args.sheet_tab,
                                     disk.sheet_config)
           loaded == LoadAwsAccounts(env.accounts_file)
       IN  /\ sheet_id' = cfg.sheet_id
           /\ sheet_tab' = cfg.sheet_tab
           /\ IF loaded.exit \/ NoAccounts(loaded.accounts)
              THEN /\ runPc' = "exited"
                   /\ exitCode' = 1
                   /\ disk' = disk
              ELSE /\ runPc' = "accounts"
                   /\ exitCode' = exitCode
                   /\ disk' = [disk EXCEPT !.aws_costs = File(<<CsvHeader>>)]
    /\ total_rows' = 0
    /\ UNCHANGED <<env, sheets, runNo, processed, sub, up, uploadLog>>

\* one iteration of `for account_config in accounts`
MainProcessAccount ==
    /\ UNCHANGED <<aggVars, fetchVars>>
    /\ runPc = "accounts"
    /\ Len(processed) < Len(Accounts)
    /\ \E sts \in env.sts, iam \in env.iam, api \in env.apis :
        LET r == ProcessAccount(Accounts[Len(processed) + 1], env.args, sts, iam, api)
        IN  /\ processed' = Append(processed,
                                   [result     |-> r,
                                    sts_raised |-> ~r.skipped /\ sts.raised,
                                    iam_raised |-> ~r.skipped /\ iam.raised,
                                    api        |-> IF r.skipped THEN ScriptEmpty ELSE api])
            /\ IF r.raised
               THEN /\ runPc' = "traceback"
                    /\ exitCode' = 1
                    /\ UNCHANGED <<disk, total_rows>>
               ELSE /\ disk' = [disk EXCEPT !.aws_costs.rows =
                                  @ \o [i \in 1..Len(r.rows) |-> RowCells(r.rows[i])]]
                    /\ total_rows' = total_rows + Len(r.rows)
                    /\ UNCHANGED <<runPc, exitCode>>
    /\ UNCHANGED <<env, sheets, runNo, sheet_id, sheet_tab, sub, up, uploadLog>>

\* the CSV is closed; the upload of the raw data begins, or is skipped
MainAccountsDone ==
    /\ UNCHANGED <<aggVars, fetchVars>>
    /\ runPc = "accounts"
    /\ Len(processed) = Len(Accounts)
    /\ IF env.gcp_key
       THEN /\ up' = Frame("aws_costs", sheet_id, env.args.sheet_title, sheet_tab,
                           env.args.share_with)
            /\ runPc' = "upload_raw"
       ELSE /\ up' = up
            /\ runPc' = "svc"
    /\ UNCHANGED <<env, disk, sheets, runNo, exitCode, sheet_id, sheet_tab,
                   total_rows, processed, sub, uploadLog>>

\* sheet_id, sheet_url = upload_csv_to_google_sheet(...)
MainRawUploaded ==
    /\ UNCHANGED <<aggVars, fetchVars>>
    /\ runPc = "upload_raw"
    /\ up.step = "return"
    /\ sheet_id' = up.sheet_id
    /\ uploadLog' = Append(uploadLog, Uploaded)
    /\ up' = NoUpload
    /\ runPc' = "svc"
    /\ UNCHANGED <<env, disk, sheets, runNo, exitCode, sheet_tab, total_rows,
                   processed, sub>>

(***************************************************************************)
(* cost_by_service.main, run by cost_analyzer.main as a subprocess with    *)
(* its default arguments                                                   *)
(***************************************************************************)
SvcRun ==
    /\ UNCHANGED <<aggVars, fetchVars>>
    /\ runPc = "svc"
    /\ LET loaded == LoadCosts(DictRows(disk.aws_costs.rows))
           cfg    == LoadSheetConfig("", "cost_by_service", disk.sheet_config)
       IN  IF loaded.raised
           THEN /\ runPc' = "exited"
                /\ exitCode' = 1
                /\ UNCHANGED <<disk, sub, up>>
           ELSE IF loaded.totals = <<>>
           THEN /\ runPc' = "acct"
                /\ UNCHANGED <<disk, sub, up, exitCode>>
           ELSE /\ disk' = [disk EXCEPT !.cost_by_service =
                               File(WriteSummary(loaded.totals, loaded.unit))]
                /\ sub' = cfg
                /\ exitCode' = exitCode
                /\ IF env.gcp_key
                   THEN /\ up' = Frame("cost_by_service", cfg.sheet_id,
                                       "AWS Cost Analyzer", cfg.sheet_tab, None)
                        /\ runPc' = "upload_svc"
                   ELSE /\ up' = up
                        /\ runPc' = "acct"
    /\ UNCHANGED <<env, sheets, runNo, sheet_id, sheet_tab, total_rows, processed,
                   uploadLog>>

\* the upload has returned: store_sheet_config
SvcUploaded ==
    /\ UNCHANGED <<aggVars, fetchVars>>
    /\ runPc = "upload_svc"
    /\ up.step = "return"
    /\ disk' = [disk EXCEPT !.sheet_config = StoreSheetConfig(up.sheet_id, sub.sheet_tab)]
    /\ sub' = [sub EXCEPT !.sheet_id = up.sheet_id]
    /\ uploadLog' = Append(uploadLog, Uploaded)
    /\ up' = NoUpload
    /\ runPc' = "acct"
    /\ UNCHANGED <<env, sheets, runNo, exitCode, sheet_id, sheet_tab, total_rows,
                   processed>>

(***************************************************************************)
(* cost_by_account.py, the second subprocess: the summary by account, kept *)
(* in step with cost_by_service.py                                         *)
(***************************************************************************)
\* the rows keyed by account in place of service
ByAccount(rows) ==
    [i \in 1..Len(rows) |-> [rows[i] EXCEPT !.service = rows[i].account_id]]

AccountSummary(tot, u) ==
    [WriteSummary(tot, u) EXCEPT ![1] = <<"account", "total_amount", "unit">>]

AcctRun ==
    /\ UNCHANGED <<aggVars, fetchVars>>
    /\ runPc = "acct"
    /\ LET loaded == LoadCosts(ByAccount(DictRows(disk.aws_costs.rows)))
           cfg    == LoadSheetConfig("", "cost_by_account", disk.sheet_config)
       IN  IF loaded.totals = <<>>
           THEN /\ runPc' = "logs"
                /\ UNCHANGED <<disk, sub, up>>
           ELSE /\ disk' = [disk EXCEPT !.cost_by_account =
                               File(AccountSummary(loaded.totals, loaded.unit))]
                /\ sub' = cfg
                /\ IF env.gcp_key
                   THEN /\ up' = Frame("cost_by_account", cfg.sheet_id,
                                       "AWS Cost Analyzer", cfg.sheet_tab, None)
                        /\ runPc' = "upload_acct"
                   ELSE /\ up' = up
                        /\ runPc' = "logs"
    /\ UNCHANGED <<env, sheets, runNo, exitCode, sheet_id, sheet_tab, total_rows,
                   processed, uploadLog>>

AcctUploaded ==
    /\ UNCHANGED <<aggVars, fetchVars>>
    /\ runPc = "upload_acct"
    /\ up.step = "return"
    /\ disk' = [disk EXCEPT !.sheet_config = StoreSheetConfig(up.sheet_id, sub.sheet_tab)]
    /\ sub' = [sub EXCEPT !.sheet_id = up.sheet_id]
    /\ uploadLog' = Append(uploadLog, Uploaded)
    /\ up' = NoUpload
    /\ runPc' = "logs"
    /\ UNCHANGED <<env, sheets, runNo, exitCode, sheet_id, sheet_tab, total_rows,
                   processed>>

(***************************************************************************)
(* cost_analyzer.main, after the subprocesses                              *)
(***************************************************************************)
\* logs.csv is written; its upload begins, or the run ends
MainWriteLogs ==
    /\ UNCHANGED <<aggVars, fetchVars>>
    /\ runPc = "logs"
    /\ disk' = [disk EXCEPT !.logs =
                  File(<< LogsHeader,
                          << StampText(runNo), StampText(runNo),
                             DateText[env.args.start_date + 1],
                             DateText[env.args.end_date + 1],
                             env.args.granularity, env.args.group_by,
                             IntText(total_rows) >> >>)]
    /\ IF env.gcp_key
       THEN /\ up' = Frame("logs", sheet_id, env.args.sheet_title, "logs",
                           env.args.share_with)
            /\ runPc' = "upload_logs"
       ELSE /\ up' = up
            /\ runPc' = "done"
    /\ UNCHANGED <<env, sheets, runNo, exitCode, sheet_id, sheet_tab, total_rows,
                   processed, sub, uploadLog>>

MainLogsUploaded ==
    /\ UNCHANGED <<aggVars, fetchVars>>
    /\ runPc = "upload_logs"
    /\ up.step = "return"
    /\ uploadLog' = Append(uploadLog, Uploaded)
    /\ up' = NoUpload
    /\ runPc' = "done"
    /\ UNCHANGED <<env, disk, sheets, runNo, exitCode, sheet_id, sheet_tab,
                   total_rows, processed, sub>>

\* the scheduler starts the program again
RunAgain ==
    /\ UNCHANGED <<aggVars, fetchVars>>
    /\ runPc \in {"done", "exited", "traceback"}
    /\ runNo < env.runs
    /\ runNo' = runNo + 1
    /\ runPc' = "start"
    /\ exitCode' = 0
    /\ sheet_id' = ""
    /\ sheet_tab' = ""
    /\ total_rows' = 0
    /\ processed' = <<>>
    /\ sub' = [sheet_id |-> "", sheet_tab |-> ""]
    /\ up' = NoUpload
    /\ UNCHANGED <<env, disk, sheets, uploadLog>>

(***************************************************************************)
(* SpecMain: one run of cost_analyzer.main in every environment;           *)
(* SpecRuns: runs in a row, in an environment that answers alike each run. *)
(***************************************************************************)
Args ==
    [sheet_id |-> "", sheet_tab |-> "raw_data", sheet_title |-> "AWS Cost Analyzer",
     share_with |-> None, start_date |-> 0, end_date |-> 2,
     granularity |-> "DAILY", group_by |-> "SERVICE"]

\* the accounts configuration files
AccountsFiles ==
    {NoJson, Json(EmptyDict)}
    \cup { Json([accounts |-> a]) : a \in SeqsUpTo(AccountConfigs, MaxAccounts) }

\* a spreadsheet left by earlier use, its raw_data tab filled
StaleBook ==
    [title   |-> "AWS Cost Analyzer",
     tabs    |-> << [title |-> "Sheet1", values |-> <<>>],
                    [title |-> "raw_data",
                     values |-> << [j \in 1..9 |->
                                      [kind  |-> "text",
                                       shown |-> (CsvHeader \o <<"note">>)[j]]],
                                   [j \in 1..9 |->
                                      [kind  |-> "text",
                                       shown |-> << "old-id", "old", "old-start",
                                                    "old-end", "DAILY", "EC2",
                                                    "old-amount", "USD", "stale" >>[j]]] >>] >>,
     writers |-> {}]

\* how a behaviour begins: nothing remote; a spreadsheet the sheet-reference
\* file names; a spreadsheet --sheet-id names
Beginnings ==
    { [sheets |-> <<>>, sheet_config |-> NoJson, sheet_id |-> "", share_with |-> None],
      [sheets |-> <<>>, sheet_config |-> Json(EmptyDict), sheet_id |-> "",
       share_with |-> "ops@example.com"],
      [sheets |-> <<StaleBook>>,
       sheet_config |-> Json([sheet_id |-> " sid1 ", sheet_tab |-> "old_tab"]),
       sheet_id |-> "", share_with |-> None],
      [sheets |-> <<StaleBook>>, sheet_config |-> NoJson, sheet_id |-> "sid1",
       share_with |-> "ops@example.com"] }

RunIdle ==
    /\ env = EmptyDict
    /\ disk = EmptyDict
    /\ sheets = <<>>
    /\ runNo = 0
    /\ runPc = "idle"
    /\ exitCode = 0
    /\ sheet_id = ""
    /\ sheet_tab = ""
    /\ total_rows = 0
    /\ processed = <<>>
    /\ sub = [sheet_id |-> "", sheet_tab |-> ""]
    /\ up = NoUpload
    /\ uploadLog = <<>>

RunStartsWith(e, begin) ==
    /\ env = e
    /\ disk = [sheet_config |-> begin.sheet_config, aws_costs |-> NoFile,
               cost_by_service |-> NoFile, cost_by_account |-> NoFile, logs |-> NoFile]
    /\ sheets = begin.sheets
    /\ runNo = 1
    /\ runPc = "start"
    /\ exitCode = 0
    /\ sheet_id = ""
    /\ sheet_tab = ""
    /\ total_rows = 0
    /\ processed = <<>>
    /\ sub = [sheet_id |-> "", sheet_tab |-> ""]
    /\ up = NoUpload
    /\ uploadLog = <<>>

MainStartState ==
    \E file \in AccountsFiles, key \in BOOLEAN, begin \in Beginnings :
        RunStartsWith([accounts_file |-> file, gcp_key |-> key,
                       args |-> [Args EXCEPT !.sheet_id = begin.sheet_id,
                                             !.share_with = begin.share_with],
                       given |-> Len(begin.sheets),
                       sts |-> StsOutcomes, iam |-> IamOutcomes,
                       apis |-> {ScriptData, ScriptEmpty, ScriptRefused},
                       runs |-> 1],
                      begin)

RunsStartState ==
    \E file \in { Json([accounts |-> a]) : a \in SeqsUpTo(AccountConfigs, 1) },
       key \in BOOLEAN, api \in {ScriptData, ScriptEmpty, ScriptRefused},
       sts \in StsOutcomes :
        RunStartsWith([accounts_file |-> file, gcp_key |-> key, args |-> Args,
                       given |-> 0,
                       sts |-> {sts}, iam |-> IamOutcomes, apis |-> {api},
                       runs |-> MaxRuns],
                      [sheets |-> <<>>, sheet_config |-> NoJson])

MainNext ==
    \/ MainStart
    \/ MainProcessAccount
    \/ MainAccountsDone
    \/ UpCreate
    \/ UpEnsureTab
    \/ UpClear
    \/ UpUpdate
    \/ UpShare
    \/ MainRawUploaded
    \/ SvcRun
    \/ SvcUploaded
    \/ AcctRun
    \/ AcctUploaded
    \/ MainWriteLogs
    \/ MainLogsUploaded

RunsNext ==
    \/ MainStart
    \/ MainProcessAccount
    \/ MainAccountsDone
    \/ UpCreate
    \/ UpEnsureTab
    \/ UpClear
    \/ UpUpdate
    \/ UpShare
    \/ MainRawUploaded
    \/ SvcRun
    \/ SvcUploaded
    \/ AcctRun
    \/ AcctUploaded
    \/ MainWriteLogs
    \/ MainLogsUploaded
    \/ RunAgain

(***************************************************************************)
(* The specifications.                                                     *)
(***************************************************************************)
AggInit == AggStart /\ FetchIdle /\ RunIdle

SpecAgg == AggInit /\ [][AggNext]_vars

FetchInit == FetchStart /\ AggIdle /\ RunIdle

SpecFetch == FetchInit /\ [][FetchNext]_vars

MainInit == MainStartState /\ AggIdle /\ FetchIdle

SpecMain == MainInit /\ [][MainNext]_vars

RunsInit == RunsStartState /\ AggIdle /\ FetchIdle

SpecRuns == RunsInit /\ [][RunsNext]_vars

(***************************************************************************)
(* Properties of cost_analyzer.main (SpecMain, SpecRuns).                  *)
(***************************************************************************)
\* the spreadsheet id the sheet-reference file holds, "" when it holds none
ConfigSheetId == Strip(Get(disk.sheet_config.content, "sheet_id", ""))

\* C1: with the key file present and no --sheet-id, the runs create at most
\* one spreadsheet in all, and the raw_data, cost_by_service and logs
\* uploads of every run target the spreadsheet id the sheet-reference file
\* holds.
C1_OneSpreadsheetForAllUploads ==
    env.gcp_key /\ env.args.sheet_id = "" =>
        /\ Len(sheets) - env.given <= 1
        /\ runPc = "done" =>
            \A i \in 1..Len(uploadLog) :
                /\ uploadLog[i].run = runNo
                /\ uploadLog[i].tab \in {"raw_data", "cost_by_service", "logs"}
                => uploadLog[i].sheet_id = ConfigSheetId

\* C1 witness: a first run has finished with its data in two spreadsheets:
\* raw_data and logs in the one main created, cost_by_service in the one the
\* subprocess created and stored.
C1_Witness ==
    /\ runPc = "done"
    /\ runNo = 1
    /\ env.gcp_key /\ env.args.sheet_id = ""
    /\ Len(sheets) = 2
    /\ ConfigSheetId = "sid2"
    /\ \E i \in 1..Len(uploadLog) :
        uploadLog[i].tab = "logs" /\ uploadLog[i].sheet_id = "sid1"
    /\ \E i \in 1..Len(uploadLog) :
        uploadLog[i].tab = "cost_by_service" /\ uploadLog[i].sheet_id = "sid2"

\* C2: with the accounts configuration missing or its account list empty the
\* run ends at once with a non-zero status: the output CSV is never opened,
\* no account is processed, no spreadsheet call is made, no aggregation
\* step runs and no log is written.
C2_NoAccountsNoCsv ==
    ~env.accounts_file.exists \/ Accounts = <<>> =>
        /\ runPc \in {"start", "exited"}
        /\ runPc = "exited" => exitCode # 0
        /\ ~disk.aws_costs.exists
        /\ processed = <<>>
        /\ up = NoUpload /\ uploadLog = <<>>
        /\ sheets \in {<<>>, <<StaleBook>>}
        /\ ~disk.cost_by_service.exists /\ ~disk.cost_by_account.exists
        /\ ~disk.logs.exists

\* C2 witness: a run has ended with status 1 on a configuration file that
\* is present, names no account, and has a key file to upload with.
C2_Witness ==
    /\ runPc = "exited"
    /\ exitCode = 1
    /\ env.accounts_file.exists
    /\ Accounts = <<>>
    /\ env.gcp_key

\* the service groups in the pages of an API script
GroupCount(pages) ==
    SumSeq([k \in 1..Len(pages) |->
        SumSeq([i \in 1..Len(Get(pages[k], "ResultsByTime", <<>>)) |->
            Len(pages[k].ResultsByTime[i].Groups)])])

\* the CSV lines of the accounts processed so far
RECURSIVE LinesOf(_)
LinesOf(entries) ==
    IF entries = <<>> THEN <<>>
    ELSE LinesOf(SubSeq(entries, 1, Len(entries) - 1)) \o
         [i \in 1..Len(entries[Len(entries)].result.rows) |->
            RowCells(entries[Len(entries)].result.rows[i])]

\* C4: a failure of the STS lookup, the IAM lookup or both never aborts the
\* run: a run is aborted by process_account only when the billing call
\* itself fails; the account's costs are still fetched and flattened, with
\* "" in the field whose lookup failed; its rows are in the CSV; and every
\* configured account is processed before the run goes on.
C4_IdentityFailureNeverAborts ==
    /\ \A i \in 1..Len(processed) :
        LET e == processed[i]
        IN  /\ e.result.raised => e.api.raises /\ i = Len(processed)
            /\ (e.sts_raised \/ e.iam_raised) /\ ~e.api.raises =>
                /\ e.result.fetched
                /\ Len(e.result.rows) = GroupCount(e.api.pages)
                /\ \A j \in 1..Len(e.result.rows) :
                    /\ e.sts_raised => e.result.rows[j].account_id = ""
                    /\ e.iam_raised => e.result.rows[j].account_name = ""
                    /\ ~e.sts_raised => e.result.rows[j].account_id # ""
    /\ runPc = "traceback" => processed[Len(processed)].api.raises
    /\ runPc \notin {"idle", "start", "exited"} =>
        disk.aws_costs.rows = <<CsvHeader>> \o LinesOf(processed)
    /\ runPc \notin {"idle", "start", "exited", "accounts", "traceback"} =>
        Len(processed) = Len(Accounts)

\* C4 witness: a run has finished in which both lookups of the first account
\* failed, its three rows and the three rows of the second account are in
\* the CSV, and the second account was identified.
C4_Witness ==
    /\ runPc = "done"
    /\ Len(processed) = 2
    /\ processed[1].sts_raised /\ processed[1].iam_raised
    /\ Len(processed[1].result.rows) = 3
    /\ Len(processed[2].result.rows) = 3
    /\ processed[2].result.rows[1].account_id = "111122223333"
    /\ processed[2].result.rows[1].account_name = "prod"
    /\ Len(disk.aws_costs.rows) = 7
    /\ disk.aws_costs.rows[2][1] = "" /\ disk.aws_costs.rows[2][2] = ""

\* the place of a remote call in upload_csv_to_google_sheet
CallRank(call) ==
    CASE call = "create"      -> 1
      [] call = "get"         -> 2
      [] call = "addSheet"    -> 3
      [] call = "clear"       -> 4
      [] call = "update"      -> 5
      [] call = "permissions" -> 6

\* the cells of the tab the upload in progress writes
UploadTabValues ==
    LET book == sheets[SheetIndex(up.sheet_id)]
    IN  book.tabs[TabIndex(book, up.sheet_tab)].values

\* the remote calls of an upload come in the order create (only when no id
\* is given), get, addSheet (only when no tab has the title), clear, update;
\* no spreadsheet has two tabs of one title; the tab is empty between the
\* clear and the update
UploadCallsInOrder ==
    /\ \A i \in 1..Len(sheets) :
        Cardinality(TabTitles(sheets[i])) = Len(sheets[i].tabs)
    /\ Uploading =>
        /\ \A i \in 1..Len(up.calls) : \A j \in 1..Len(up.calls) :
            i < j => CallRank(up.calls[i]) < CallRank(up.calls[j])
        /\ up.step # "create" => ("create" \in Range(up.calls) <=> ~Truthy(up.given_id))
        /\ up.step \notin {"create", "ensure"} =>
            /\ "get" \in Range(up.calls)
            /\ up.sheet_tab \in TabTitles(sheets[SheetIndex(up.sheet_id)])
        /\ up.step \in {"update", "share", "return"} => "clear" \in Range(up.calls)
        /\ up.step = "update" => UploadTabValues = <<>>
        /\ up.step \in {"share", "return"} => "update" \in Range(up.calls)

\* after the update the tab has the rows and columns of the CSV and nothing
\* else: no cell of an earlier upload is left
UploadLeavesNothingOlder ==
    Uploading /\ up.step \in {"share", "return"} =>
        /\ up.rows = disk[up.csv_path].rows
        /\ Len(UploadTabValues) = Len(up.rows)
        /\ \A i \in 1..Len(up.rows) :
            /\ Len(UploadTabValues[i]) = Len(up.rows[i])
            /\ \A j \in 1..Len(up.rows[i]) :
                UploadTabValues[i][j] = UserEntered(up.rows[i][j])

\* C9: the remote calls of an upload come in the order create (only when no
\* id is given), ensure the tab (added only when absent), clear, write at
\* A1; after a completed upload nothing older is left in the tab, and the
\* tab's contents equal the CSV rows exactly: every cell is the text of the
\* CSV cell and displays it unchanged.
C9_UploadOrderAndContents ==
    /\ UploadCallsInOrder
    /\ UploadLeavesNothingOlder
    /\ Uploading /\ up.step \in {"share", "return"} =>
        \A i \in 1..Len(up.rows) : \A j \in 1..Len(up.rows[i]) :
            /\ UploadTabValues[i][j].kind = "text"
            /\ UploadTabValues[i][j].shown = up.rows[i][j]

\* C9 witness: an upload has completed into a spreadsheet that was given and
\* whose raw_data tab held older, wider content: no spreadsheet and no tab
\* was created, nothing older is left, and the cell entered as "10.50" is a
\* number displayed as 10.5.
C9_Witness ==
    /\ runPc = "upload_raw"
    /\ up.step = "return"
    /\ up.given_id = "sid1"
    /\ up.calls = <<"get", "clear", "update", "permissions">>
    /\ Len(sheets) = 1
    /\ Len(up.rows) = 4
    /\ Len(UploadTabValues) = 4
    /\ Len(UploadTabValues[2]) = 8
    /\ up.rows[2][7] = "10.50"
    /\ UploadTabValues[2][7] = [kind |-> "number", shown |-> "10.5"]

(***************************************************************************)
(* Properties of process_account and fetch_costs (SpecFetch).              *)
(***************************************************************************)
\* the token a response carries, None when it carries none
ResponseToken(response) == Get(response, "NextPageToken", None)

\* fetch_costs has returned
FetchReturned == pPc \in {"flatten", "returned"} /\ apiLog # <<>>

\* C3: fetch_costs follows the continuation token until it is exhausted:
\* the first request carries no token, each later request carries the token
\* of the response before it, the loop goes on exactly while responses
\* carry a token and ends at the first that carries none, and the result is
\* the concatenation, in order, of the ResultsByTime of all the responses.
C3_FollowsTokenToExhaustion ==
    LET n == Len(apiLog)
    IN  /\ n >= 1 => apiLog[1].token = None
        /\ \A k \in 2..n :
            /\ Truthy(ResponseToken(apiLog[k - 1].response))
            /\ apiLog[k].token = ResponseToken(apiLog[k - 1].response)
        /\ pPc = "fetch" /\ n >= 1 => Truthy(ResponseToken(apiLog[n].response))
        /\ pPc \in {"fetch", "flatten", "returned"} =>
            results = Concat([k \in 1..n |->
                                Get(apiLog[k].response, "ResultsByTime", <<>>)])
        /\ FetchReturned =>
            /\ ~Truthy(ResponseToken(apiLog[n].response))
            /\ next_token = None

\* C3 witness: fetch_costs has returned after three pages, the first two
\* carrying tokens and periods, the third carrying no token.
C3_Witness ==
    /\ FetchReturned
    /\ Len(apiLog) = 3
    /\ Len(Get(apiLog[1].response, "ResultsByTime", <<>>)) = 1
    /\ Len(Get(apiLog[2].response, "ResultsByTime", <<>>)) = 1
    /\ apiLog[3].token = "tok2"
    /\ Len(results) = 2
    /\ results[1] # results[2]

GroupsOf(i) == Get(results[i], "Groups", <<>>)

\* the number of service groups in the first i fetched periods
GroupsBefore(i) == SumSeq([h \in 1..i |-> Len(GroupsOf(h))])

\* the eight columns a row must hold for a period and a billing metric
ExpectedRow(period, service_name, metric) ==
    [account_id   |-> pAccount.account_id,
     account_name |-> pAccount.account_name,
     period_start |-> period.TimePeriod.Start,
     period_end   |-> period.TimePeriod.End,
     granularity  |-> pArgs.granularity,
     service      |-> service_name,
     amount       |-> IF "Amount" \in DOMAIN metric THEN metric.Amount ELSE "0",
     unit         |-> IF "Unit" \in DOMAIN metric THEN metric.Unit ELSE "USD"]

\* C10: grouped by SERVICE there is exactly one row per service group of
\* each period, ungrouped there is exactly one row per period with an empty
\* service; a missing amount is "0", a missing unit is "USD"; the rows keep
\* the order of the periods and of the groups within a period.
C10_FlattenedRows ==
    pPc = "returned" /\ apiLog # <<>> =>
        IF pArgs.group_by = "SERVICE"
        THEN /\ Len(pRows) = GroupsBefore(Len(results))
             /\ \A i \in 1..Len(results) : \A j \in 1..Len(GroupsOf(i)) :
                 pRows[GroupsBefore(i - 1) + j] =
                     ExpectedRow(results[i],
                                 IF GroupsOf(i)[j].Keys = <<>> THEN ""
                                 ELSE Head(GroupsOf(i)[j].Keys),
                                 GroupsOf(i)[j].Metrics.UnblendedCost)
        ELSE /\ Len(pRows) = Len(results)
             /\ \A i \in 1..Len(results) :
                 pRows[i] =
                     ExpectedRow(results[i], "",
                                 IF "UnblendedCost" \in DOMAIN results[i].Total
                                 THEN results[i].Total.UnblendedCost ELSE EmptyDict)

\* C10 witness: grouped by service, a period with two groups and then a
\* period whose one group has no key and no amount gave three rows, the
\* third with an empty service, amount "0" and the unit the API named.
C10_Witness ==
    /\ pPc = "returned"
    /\ pArgs.group_by = "SERVICE"
    /\ Len(results) = 2
    /\ Len(GroupsOf(1)) = 2
    /\ Len(pRows) = 3
    /\ pRows[1].service = "EC2" /\ pRows[1].amount = "10.50"
    /\ pRows[2].service = "S3" /\ pRows[2].unit = "USD"
    /\ pRows[3].service = "" /\ pRows[3].amount = "0" /\ pRows[3].unit = "EUR"

(***************************************************************************)
(* Properties of the aggregation (SpecAgg).                                *)
(***************************************************************************)
\* load_costs has returned
AggLoadedAll == aggPc \in {"nodata", "write", "written"}

\* the keys of the rows
RowKeys(rows) == { RowService(rows[i]) : i \in 1..Len(rows) }

\* the rows of one key, in file order
RECURSIVE RowsOfKey(_, _)
RowsOfKey(rows, key) ==
    IF rows = <<>> THEN <<>>
    ELSE IF RowService(Head(rows)) = key
         THEN <<Head(rows)>> \o RowsOfKey(Tail(rows), key)
         ELSE RowsOfKey(Tail(rows), key)

\* the rows whose amount float() accepts
RECURSIVE Parsable(_)
Parsable(rows) ==
    IF rows = <<>> THEN <<>>
    ELSE IF ParseFloat(AmountStr(Head(rows))).raised
         THEN Parsable(Tail(rows))
         ELSE <<Head(rows)>> \o Parsable(Tail(rows))

\* the decimal amounts of parsable rows, as floats
ParsedAmounts(rows) == [i \in 1..Len(rows) |-> ParseFloat(AmountStr(rows[i])).value]

\* the float sum of a list of floats, added left to right from 0.0
RECURSIVE FloatSum(_, _)
FloatSum(acc, xs) ==
    IF xs = <<>> THEN acc ELSE FloatSum(FloatAdd(acc, Head(xs)), Tail(xs))

\* the sum of the absolute values, in exact arithmetic
SumAbs(xs) == SumSeq([i \in 1..Len(xs) |-> Abs(xs[i])])

\* load_costs returns here
AggLoadReturns == aggPc \in {"nodata", "write"}

\* the totals, as mappings, that load_costs gives the reorderings of rows
TotalsOfPerms(rows) == { ItemsMap(LoadCosts(p).totals) : p \in Perms(rows) }

\* C6 as stated: aggregation is independent of input row order: every
\* permutation of the rows gives load_costs the same mapping from service
\* key to total.
C6_SameTotalsAnyOrder ==
    AggLoadReturns => TotalsOfPerms(aggIn.rows) = {ItemsMap(totals)}

\* two float sums of the same n amounts xs agree within the rounding of
\* n - 1 additions each: |a - b| <= 2 g S, with g = k u / (1 - k u),
\* k = n - 1, u = 2^-MantissaBits and S the sum of the |amounts|
WithinTolerance(a, b, xs) ==
    LET k == Len(xs) - 1
    IN  Abs(a - b) * (Pow2(MantissaBits) - k) <= 2 * k * SumAbs(xs)

\* C6 amended: every permutation of the rows gives load_costs the same set
\* of keys, and for each key a total that agrees within floating-point
\* tolerance; the totals are identical whenever the key's amounts are
\* small enough that no addition rounds.
C6_SameTotalsWithinTolerance ==
    AggLoadReturns =>
        \A mine \in {ItemsMap(totals)} :
            \A others \in {TotalsOfPerms(aggIn.rows)} :
                /\ DOMAIN mine = RowKeys(aggIn.rows)
                /\ \A other \in others : DOMAIN other = DOMAIN mine
                /\ others # {mine} =>
                    \A k \in DOMAIN mine :
                        \A xs \in {ParsedAmounts(Parsable(RowsOfKey(aggIn.rows, k)))} :
                            \A other \in others :
                                /\ WithinTolerance(other[k], mine[k], xs)
                                /\ SumAbs(xs) < Pow2(MantissaBits) => other[k] = mine[k]

\* C6 witness: a loaded file of three rows, two of them sharing a key, whose
\* total a reordering changes.
C6_Witness ==
    /\ AggLoadReturns
    /\ Len(aggIn.rows) = 3
    /\ \E k \in RowKeys(aggIn.rows) : Len(RowsOfKey(aggIn.rows, k)) >= 2
    /\ TotalsOfPerms(aggIn.rows) # {ItemsMap(totals)}

\* C7: a row whose amount text float() rejects counts as zero and does not
\* stop load_costs: the program never ends in a traceback, every row is
\* read, the key of every row (parsable or not) is in the totals, and each
\* total is the float sum of the parsable amounts of its key alone.
C7_UnparsableIsZero ==
    /\ aggPc # "traceback"
    /\ AggLoadedAll =>
        /\ aggPos = Len(aggIn.rows) + 1
        /\ DOMAIN ItemsMap(totals) = RowKeys(aggIn.rows)
        /\ \A k \in RowKeys(aggIn.rows) :
            ItemsMap(totals)[k] =
                FloatSum(0, ParsedAmounts(Parsable(RowsOfKey(aggIn.rows, k))))

\* C7 witness: load_costs has returned from a file in which an unparsable
\* row is followed by a parsable row of the same key, and from a key all of
\* whose rows are unparsable.
C7_Witness ==
    /\ AggLoadedAll
    /\ Len(aggIn.rows) = 3
    /\ ParseFloat(AmountStr(aggIn.rows[1])).raised
    /\ ~ParseFloat(AmountStr(aggIn.rows[2])).raised
    /\ RowService(aggIn.rows[1]) = RowService(aggIn.rows[2])
    /\ ParseFloat(AmountStr(aggIn.rows[3])).raised
    /\ RowService(aggIn.rows[3]) # RowService(aggIn.rows[1])
    /\ ItemsMap(totals)[RowService(aggIn.rows[3])] = 0
    /\ ItemsMap(totals)[RowService(aggIn.rows[1])] > 0

\* the amount a formatted total_amount cell denotes, in half dollars
FormattedValue(cell) ==
    IF cell \in DOMAIN PlainAmounts THEN PlainAmounts[cell]
    ELSE CHOOSE a \in GridAmounts : cell = FormatAmount("$", a)

\* C8: the summary holds the header and exactly one data row per distinct
\* aggregation key, and the data rows are in descending order of total.
C8_SummarySortedOnePerKey ==
    aggPc = "written" =>
        LET out  == aggOut.rows
            data == SubSeq(out, 2, Len(out))
        IN  /\ aggOut.exists
            /\ out[1] = SummaryHeader
            /\ Len(data) = Cardinality(RowKeys(aggIn.rows))
            /\ { data[i][1] : i \in 1..Len(data) } = RowKeys(aggIn.rows)
            /\ \A i \in 1..Len(data) :
                /\ data[i][2] = FormatAmount(IF unit = "USD" THEN "$" ELSE "",
                                             ItemsMap(totals)[data[i][1]])
                /\ data[i][3] = unit
                /\ FormattedValue(data[i][2]) = ItemsMap(totals)[data[i][1]]
            /\ \A i \in 1..Len(data) - 1 :
                FormattedValue(data[i][2]) >= FormattedValue(data[i + 1][2])

\* C8 witness: the example of the specification: EC2 10.50, EC2 4.50 and
\* S3 2.00 give EC2 $15.00 and then S3 $2.00.
C8_Witness ==
    /\ aggPc = "written"
    /\ aggIn.rows = << [service |-> "EC2", amount |-> "10.50", unit |-> "USD"],
                       [service |-> "EC2", amount |-> "4.50", unit |-> "USD"],
                       [service |-> " S3 ", amount |-> "2.00", unit |-> "USD"] >>
    /\ aggOut.rows = << SummaryHeader,
                        <<"EC2", "$15.00", "USD">>,
                        <<"S3", "$2.00", "USD">> >>

====
